---------------------------- MODULE Spec2Model ----------------------------
(***************************************************************************)
(* Model of the NutritionTracker meal pipeline (src/processor_lambda.py):  *)
(* the SQS-triggered lambda_handler, the DynamoDB idempotency ledger, the  *)
(* Google-Sheets append and the Telegram notifier, with several consumer   *)
(* invocations running concurrently.                                       *)
(* With it: the meal resolver and aggregator of the same file, the daily   *)
(* rollup (src/reporter_lambda.py) and the two inbound gateways            *)
(* (src/client_lambda.py, src/client_lambda/client_lambda.py).             *)
(***************************************************************************)
EXTENDS Integers, Sequences, FiniteSets

\* ------------------------------------------------------------------ bounds
MaxMessages == 2      \* messages the inbound gateway puts on the queue
MaxBatch    == 2      \* records of one lambda_handler invocation
MaxFailures == 1      \* exceptions raised in one behaviour
MaxDays     == 1      \* how far the clock advances, in days

\* ------------------------------------------------------- program constants
TTL_SECONDS == 86400  \* int(time.time()) + 86400

Consumers == 1..2
Keys      == {"k1", "k2"}
NoKey     == "none"
NoTtl     == -1

\* The JSON bodies a queue record can carry.  "ok" is the work item of
\* src/client_lambda.py; "nokey" is the work item of
\* src/client_lambda/client_lambda.py (chat_id and file_id only); "nochat"
\* is a JSON object with a key and no chat_id; "garbled" is not JSON.
Bodies ==
    [kind : {"ok"}, key : Keys]
        \cup {[kind |-> "nochat", key |-> "k1"],
              [kind |-> "nokey", key |-> NoKey], [kind |-> "garbled", key |-> NoKey]}

\* json.loads(record['body']) succeeds
Parses(body) == body.kind # "garbled"

\* 'idempotency_key' in message_body
HasKey(body) == body.kind \in {"ok", "nochat"}

\* 'chat_id' in message_body
HasChatId(body) == body.kind \in {"ok", "nokey"}

Absent == [status |-> "ABSENT", ttl |-> NoTtl]

\* A Telegram message: its kind ("summary", "nofood", "unreadable", "apology")
\* and its chat, named by the work item it is about: by its key, and by NoKey
\* for a work item that carries a chat_id and no key.
Nothing == [chat |-> NoKey, kind |-> "none"]

VARIABLES
    queue,      \* SQS: body -> number of visible messages with that body
    ledger,     \* DynamoDB table: key -> record, Absent when there is no item
    now,        \* time.time(), in seconds
    rows,       \* Meals sheet: key -> rows appended for that work item
    sent,       \* Telegram: the message delivered by the latest step, if any
    failures,   \* exceptions raised so far
    pc,         \* consumer -> position in lambda_handler
    batch,      \* consumer -> event['Records']
    idx,        \* consumer -> index of the record being processed
    item,       \* consumer -> status read by table.get_item ("NONE" before)
    chk,        \* consumer -> outcome of _check_and_update_idempotency
    vis,        \* consumer -> outcome of _get_food_items_from_image
    err,        \* consumer -> the exception propagating, "none" when none
    steps       \* consumer -> the calls process_meal_from_message has made for
                \* the current record, in order, each with whether it returned
                \* normally with its effect done

pvars == <<queue, ledger, now, rows, sent, failures,
           pc, batch, idx, item, chk, vis, err, steps>>

\* The state of one call of _calculate_meal_nutrition and of the
\* get_nutrition_data call it is in, and what lines 283-295 make of its result.
VARIABLES
    food_items,     \* the mentions, each a text: a sequence of characters
    mpc,            \* position in _calculate_meal_nutrition, "off" when not called
    mi,             \* index of the mention the for loop is at
    weight,         \* weight of that mention
    food_name,      \* cleaned name of that mention
    responses,      \* get_nutrition_data: what the data types queried so far
                    \* returned, each a list of fdcIds or a failure
    all_foods,      \* get_nutrition_data: the merged candidates (their fdcIds)
    seen_fdc_ids,   \* get_nutrition_data: the fdcIds seen
    reply,          \* the outcome of the latest picker call, "none" before
    picks,          \* picker calls made
    selected_food,  \* the fdcId get_nutrition_data returned, 0 for None
    totals,         \* totals, in hundredths (value_per_100g * weight)
    resolved,       \* the mentions handled so far: weight and selected fdcId
    sheet_data,     \* the row handed to write_to_google_sheets, NoRow before
    result_message  \* the summary handed to send_telegram_message

mvars == <<food_items, mpc, mi, weight, food_name, responses, all_foods,
           seen_fdc_ids, reply, picks, selected_food, totals, resolved,
           sheet_data, result_message>>

\* One invocation of the daily rollup (src/reporter_lambda.py).
VARIABLES
    values,         \* the rows of Meals!A:F, each a list of cells (texts)
    today_str,      \* the target date, a text
    rpc,            \* position in the rollup's lambda_handler, "off" when not run
    ri,             \* calculate_daily_totals: index of the row the loop is at
    daily,          \* calculate_daily_totals: the four running totals
    reports,        \* the rows appended to Daily_Reports!A:E
    notices,        \* the texts handed to send_telegram_message, in order
    statusCode      \* the statusCode returned, 0 before the return

rvars == <<values, today_str, rpc, ri, daily, reports, notices, statusCode>>

\* The inbound gateways (src/client_lambda.py and the older
\* src/client_lambda/client_lambda.py) handling webhooks.
VARIABLES
    sqs,            \* the work items put on the queue, in order, each with the
                    \* gateway and the webhook it comes from
    acks,           \* the texts the gateways handed to send_telegram_message
    hooks           \* the webhooks handled, in order, each with its gateway and
                    \* the statusCode returned

gvars == <<sqs, acks, hooks>>

vars == <<pvars, mvars, rvars, gvars>>

\* The record a consumer is processing, and its idempotency key.
Cur(w) == batch[w][idx[w]]
CurKey(w) == Cur(w).key

\* ------------------------------------------------------------ pure helpers

\* StatusDecision without the COMPLETED test: a completed key is handled like
\* a new one.
StatusDecision_IgnoreCompleted(st) ==
    IF st = "PROCESSING" THEN "retry" ELSE "new"

\* StatusDecision with any existing record taken for a retry.
StatusDecision_RetryCompleted(st) ==
    IF st \in {"COMPLETED", "PROCESSING"} THEN "retry" ELSE "new"

\* StatusDecision without the PROCESSING test: a record in progress goes on
\* to the conditional put_item, which it fails.
StatusDecision_NoRetryBranch(st) ==
    IF st = "COMPLETED" THEN "completed" ELSE "new"

\* StatusDecision with PROCESSING treated as a lock: the delivery is skipped.
StatusDecision_BlockProcessing(st) ==
    IF st \in {"COMPLETED", "PROCESSING"} THEN "completed" ELSE "new"

\* _check_and_update_idempotency, the branch taken on the status that
\* table.get_item returned: "completed" returns False, "retry" returns True,
\* "new" goes on to the conditional put_item.
StatusDecision(st) ==
    IF st = "COMPLETED" THEN "completed"
    ELSE IF st = "PROCESSING" THEN "retry"
    ELSE "new"

\* put_item without its ConditionExpression: an unconditional overwrite.
ConditionHolds_Unconditional(rec) == TRUE

\* The code of a DynamoDB error that is not the conflict of the conditional
\* insert.
StorageError == "ProvisionedThroughputExceededException"

\* ConditionExpression='attribute_not_exists(idempotency_key)'
ConditionHolds(rec) == rec = Absent

\* An except ClientError clause that takes every storage error for the
\* conflict of the conditional insert.
OnClientError_SkipAll(code) == "skip"

\* _check_and_update_idempotency, except ClientError: the conflict of the
\* conditional insert returns False, any other error code is raised again.
OnClientError(code) ==
    IF code = "ConditionalCheckFailedException" THEN "skip" ELSE "raise"

\* Item={'idempotency_key': ..., 'status': 'PROCESSING', 'ttl': ttl_timestamp}
NewRecord(t) == [status |-> "PROCESSING", ttl |-> t + TTL_SECONDS]

\* A completion update that also moves the expiry on by a day.
CompletedRecord_Extends(rec) ==
    [status |-> "COMPLETED", ttl |-> rec.ttl + TTL_SECONDS]

\* A completion update that writes the status the record already has.
CompletedRecord_StaysProcessing(rec) == [status |-> "PROCESSING", ttl |-> rec.ttl]

\* The completion update left out: the record stays as it is.
CompletedRecord_Forgotten(rec) == rec

\* update_item(... "set #status = :s" ... ':s': 'COMPLETED'): sets the status
\* attribute of the item with that key, creating the item (with no ttl
\* attribute) when there is none.
CompletedRecord(rec) == [status |-> "COMPLETED", ttl |-> rec.ttl]

\* send_telegram_message that logs a RequestException and returns.
NotifierRaises_LogOnly == FALSE

\* send_telegram_message: a RequestException of requests.post is logged and
\* raised again to the caller.
NotifierRaises == TRUE

\* The two texts of _get_food_items_from_image swapped for one.
NoneMessage_OneText(v) == "nofood"

\* The text _get_food_items_from_image sends before it returns None: "Sorry, I
\* couldn't identify any food in the image ..." for the NO_FOOD sentinel,
\* "Sorry, I couldn't analyze the image ..." in the except ValueError clause.
NoneMessage(v) == IF v = "nofood" THEN "nofood" ELSE "unreadable"

\* An except clause that logs the failure and lets the for loop go on: the
\* record is tried again in the same invocation.
HandlerExit_GoesOn(original, apologyFailed) == [pc |-> "check", err |-> "none"]

\* An except clause that swallows the exception: the handler returns.
HandlerExit_Swallowed(original, apologyFailed) == [pc |-> "done", err |-> "none"]

\* An except clause that lets the failure of the apology replace the error.
HandlerExit_Masked(original, apologyFailed) ==
    [pc |-> "raised", err |-> IF apologyFailed THEN "RequestException" ELSE original]

\* lambda_handler's except block ends with a bare raise: the handler is left
\* by the exception that process_meal_from_message raised, whatever happened
\* to the apology.
HandlerExit(original, apologyFailed) == [pc |-> "raised", err |-> original]

\* How often body x occurs in the sequence b.
Count(b, x) == Cardinality({i \in DOMAIN b : b[i] = x})

\* The queues of MaxMessages messages with bodies of the set B: what the
\* inbound gateways have sent (sqs.send_message) and SQS has yet to deliver.
Queues(B) ==
    {[x \in Bodies |-> Count(b, x)] : b \in [1..MaxMessages -> B]}

\* The batches SQS can hand to one invocation: at most MaxBatch of the
\* visible messages, in any order.
Batches ==
    {b \in UNION {[1..n -> Bodies] : n \in 1..MaxBatch} :
        \A x \in Bodies : Count(b, x) <= queue[x]}

\* ------------------------------------------------- texts (Python strings)
\* A text is a sequence of characters.  Digits are the characters \d and
\* str.isdigit accept, Spaces those str.strip and str.split take for
\* whitespace.
Digits == {"0", "1", "2", "7"}
Spaces == {" "}

DigitVal(c) == CASE c = "0" -> 0 [] c = "1" -> 1 [] c = "2" -> 2 [] c = "7" -> 7

\* int() of a text of digits.
RECURSIVE IntOf(_)
IntOf(t) ==
    IF t = <<>> THEN 0
    ELSE 10 * IntOf(SubSeq(t, 1, Len(t) - 1)) + DigitVal(t[Len(t)])

\* str.isdigit(): not empty, and digits only.
IsDigit(t) == t # <<>> /\ \A i \in DOMAIN t : t[i] \in Digits

\* str.strip()
RECURSIVE Strip(_)
Strip(t) ==
    IF t = <<>> THEN t
    ELSE IF t[1] \in Spaces THEN Strip(Tail(t))
    ELSE IF t[Len(t)] \in Spaces THEN Strip(SubSeq(t, 1, Len(t) - 1))
    ELSE t

\* str.split(): the maximal runs of characters that are not whitespace.
RECURSIVE Split(_)
Split(t) ==
    IF t = <<>> THEN <<>>
    ELSE IF t[1] \in Spaces THEN Split(Tail(t))
    ELSE LET ends == {i \in DOMAIN t : t[i] \in Spaces}
             stop == IF ends = {} THEN Len(t) + 1
                     ELSE CHOOSE i \in ends : \A j \in ends : i <= j
         IN  <<SubSeq(t, 1, stop - 1)>> \o Split(SubSeq(t, stop, Len(t)))

\* ' '.join(parts)
RECURSIVE Join(_)
Join(parts) ==
    IF parts = <<>> THEN <<>>
    ELSE IF Len(parts) = 1 THEN parts[1]
    ELSE parts[1] \o <<" ">> \o Join(Tail(parts))

\* The index after the digits that start at index i of t.
RECURSIVE DigitsEnd(_, _)
DigitsEnd(t, i) ==
    IF i <= Len(t) /\ t[i] \in Digits THEN DigitsEnd(t, i + 1) ELSE i

\* re.match of \((\d+)g\) at index i of t: the index of the closing
\* parenthesis, 0 when there is no match there.
MatchAt(t, i) ==
    IF t[i] # "(" THEN 0
    ELSE LET j == DigitsEnd(t, i + 1) IN
         IF j > i + 1 /\ j + 1 <= Len(t) /\ t[j] = "g" /\ t[j + 1] = ")"
           THEN j + 1 ELSE 0

\* re.search(r'\((\d+)g\)', item): the leftmost match from index i on, as its
\* first and last index; start 0 when there is none.
RECURSIVE SearchFrom(_, _)
SearchFrom(t, i) ==
    IF i > Len(t) THEN [start |-> 0, stop |-> 0]
    ELSE IF MatchAt(t, i) # 0 THEN [start |-> i, stop |-> MatchAt(t, i)]
    ELSE SearchFrom(t, i + 1)

\* The weight of _calculate_meal_nutrition: int(weight_match.group(1)), and
\* 0 without a match.
ParseWeight(t) ==
    LET m == SearchFrom(t, 1) IN
    IF m.start = 0 THEN 0 ELSE IntOf(SubSeq(t, m.start + 1, m.stop - 2))

\* ParseName that keeps a leading number.
ParseName_KeepsNumber(t) ==
    LET m == SearchFrom(t, 1) IN
    IF m.start = 0 THEN t ELSE Strip(SubSeq(t, 1, m.start - 1))

\* The food_name of _calculate_meal_nutrition: the item, cut before the match
\* and stripped when there is one, and without its first token when that is
\* a number.
ParseName(t) ==
    LET m == SearchFrom(t, 1)
        name == IF m.start = 0 THEN t ELSE Strip(SubSeq(t, 1, m.start - 1))
        parts == Split(name)
    IN  IF parts # <<>> /\ IsDigit(parts[1]) THEN Join(Tail(parts)) ELSE name

\* The int(picker_response.text.strip()) of get_nutrition_data: the value of
\* an optional sign and digits; any other text raises ValueError (ok FALSE).
IntText(t) ==
    LET u == Strip(t)
        signed == u # <<>> /\ u[1] \in {"-", "+"}
        d == IF signed THEN Tail(u) ELSE u
    IN  IF ~IsDigit(d) THEN [ok |-> FALSE, value |-> 0]
        ELSE IF signed /\ u[1] = "-" THEN [ok |-> TRUE, value |-> 0 - IntOf(d)]
        ELSE [ok |-> TRUE, value |-> IntOf(d)]

\* --------------------------------------------- FoodData Central, the meal
MaxLen      == 5      \* characters of a mention drawn from MentionChars
MaxItems    == 2      \* mentions of one meal
MaxIds      == 2      \* fdcIds FoodData Central knows
MaxPage     == 2      \* foods of one search response
MaxReplyLen == 2      \* characters of a picker reply

\* data_types = ["SR Legacy", "Foundation", "Survey (FNDDS)"]
data_types == <<"SR Legacy", "Foundation", "Survey (FNDDS)">>

FdcIds == 1..MaxIds

\* What requests.get gives for one data type: the fdcIds of
\* search_data_subset['foods'], or a RequestException (ok FALSE).
Failed == [ok |-> FALSE, foods |-> <<>>]
Responses ==
    {Failed} \cup {[ok |-> TRUE, foods |-> f] :
                      f \in UNION {[1..n -> FdcIds] : n \in 0..MaxPage}}

\* The foodNutrients of the food with that fdcId: nutrientName, unitName and
\* value of each sample.
FoodNutrients(id) ==
    IF id = 1
      THEN << [name |-> "Energy", unit |-> "KCAL", value |-> 165],
              [name |-> "Energy", unit |-> "kJ", value |-> 690],
              [name |-> "Protein", unit |-> "G", value |-> 31],
              [name |-> "Fiber, total dietary", unit |-> "G", value |-> 3] >>
    ELSE IF id = 2
      THEN << [name |-> "Energy", unit |-> "kcal", value |-> 35],
              [name |-> "Energy (Atwater General Factors)", unit |-> "KCAL", value |-> 30],
              [name |-> "Carbohydrate, by difference", unit |-> "G", value |-> 7],
              [name |-> "Total lipid (fat)", unit |-> "G", value |-> 1],
              [name |-> "Protein", unit |-> "G", value |-> 2] >>
    ELSE <<>>

\* str.upper() of a unitName.
Upper(u) ==
    CASE u = "kcal" -> "KCAL" [] u = "kJ" -> "KJ" [] u = "g" -> "G" [] OTHER -> u

\* The picker's outcomes: generate_content raises, the response has no text
\* (picker_response.text raises ValueError), or the response has a text.
ReplyChars == {"-", "0", "1", "2", "a"}
ReplyTexts ==
    UNION {[1..n -> ReplyChars] : n \in 0..MaxReplyLen}
        \cup {<<" ", "2", " ">>, <<"+", "1">>}
NoReply == [kind |-> "none", text |-> <<>>]
Replies ==
    {[kind |-> "raises", text |-> <<>>], [kind |-> "notext", text |-> <<>>]}
        \cup {[kind |-> "text", text |-> t] : t \in ReplyTexts}

\* The mentions of the meals: "1 a (17g)", "b (2g)", "a" and the empty text
\* that a trailing semicolon leaves.
Menu ==
    { <<"1", " ", "a", " ", "(", "1", "7", "g", ")">>,
      <<"b", " ", "(", "2", "g", ")">>,
      <<"a">>,
      <<>> }

\* The mentions parsed one by one: every text of at most MaxLen characters of
\* MentionChars, and "a (2g) b", "2  a  b (2g)", "a (2g) (7g)", "2 7 a (2g)",
\* "a (2 g)" and "1 a b (170g)".
MentionChars == {"a", " ", "2", "(", "g", ")"}
Mentions ==
    UNION {[1..n -> MentionChars] : n \in 0..MaxLen}
        \cup Menu
        \cup { <<"a", " ", "(", "2", "g", ")", " ", "b">>,
               <<"2", " ", " ", "a", " ", " ", "b", " ", "(", "2", "g", ")">>,
               <<"a", " ", "(", "2", "g", ")", " ", "(", "7", "g", ")">>,
               <<"2", " ", "7", " ", "a", " ", "(", "2", "g", ")">>,
               <<"a", " ", "(", "2", " ", "g", ")">>,
               <<"1", " ", "a", " ", "b", " ", "(", "1", "7", "0", "g", ")">> }

\* totals = {'calories': 0, 'protein': 0, 'carbs': 0, 'fat': 0}
Tracked == {"calories", "protein", "carbs", "fat"}
ZeroTotals == [n \in Tracked |-> 0]

\* The total a sample is added to, "none" when it is ignored: the if/elif
\* chain over nutrientName, and unitName for Energy.
TotalOf_AnyEnergy(sample) ==
    CASE sample.name = "Energy" -> "calories"
      [] sample.name = "Protein" -> "protein"
      [] sample.name = "Carbohydrate, by difference" -> "carbs"
      [] sample.name = "Total lipid (fat)" -> "fat"
      [] OTHER -> "none"

TotalOf(sample) ==
    CASE sample.name = "Energy" /\ Upper(sample.unit) = "KCAL" -> "calories"
      [] sample.name = "Protein" -> "protein"
      [] sample.name = "Carbohydrate, by difference" -> "carbs"
      [] sample.name = "Total lipid (fat)" -> "fat"
      [] OTHER -> "none"

\* The for loop over found_food['foodNutrients']: value_per_100g / 100 *
\* weight added to the total of each sample, here in hundredths.
RECURSIVE Accumulate(_, _, _)
Accumulate(t, samples, w) ==
    IF samples = <<>> THEN t
    ELSE LET n == TotalOf(samples[1])
             u == IF n = "none" THEN t
                  ELSE [t EXCEPT ![n] = t[n] + samples[1].value * w]
         IN  Accumulate(u, Tail(samples), w)

\* The for loop over search_data_subset['foods'], without the seen_fdc_ids
\* test.
Merge_NoDedup(foods, seen, page) == foods \o page

\* The for loop over search_data_subset['foods']: a food is appended to
\* all_foods, and its fdcId added to seen_fdc_ids, unless the fdcId is in
\* seen_fdc_ids.
RECURSIVE Merge(_, _, _)
Merge(foods, seen, page) ==
    IF page = <<>> THEN foods
    ELSE IF page[1] \in seen
           THEN Merge(foods, seen, Tail(page))
           ELSE Merge(Append(foods, page[1]), seen \cup {page[1]}, Tail(page))

\* selected_food of get_nutrition_data for the picker's number k: the list
\* index k - 1, which Python counts from the end of the list when it is
\* negative and which raises IndexError outside -n .. n-1; the except clause
\* then takes the first food.
Select(foods, k) ==
    LET n == Len(foods)
        i == k - 1
    IN  IF i >= 0 /\ i < n THEN foods[i + 1]
        ELSE IF i < 0 /\ i >= 0 - n THEN foods[n + i + 1]
        ELSE foods[1]

\* get_nutrition_data with the test for an empty all_foods left out.
NoCandidates_Ignored(foods) == FALSE

\* if not all_foods: return None
NoCandidates(foods) == foods = <<>>

NoRow == [items |-> <<>>, totals |-> ZeroTotals, written |-> FALSE]
NoMessage == [items |-> <<>>, totals |-> ZeroTotals, sent |-> FALSE]

\* No call of _calculate_meal_nutrition is modelled.
MealOff ==
    /\ food_items = <<>>
    /\ mpc = "off"
    /\ mi = 0
    /\ weight = 0
    /\ food_name = <<>>
    /\ responses = <<>>
    /\ all_foods = <<>>
    /\ seen_fdc_ids = {}
    /\ reply = NoReply
    /\ picks = 0
    /\ selected_food = 0
    /\ totals = ZeroTotals
    /\ resolved = <<>>
    /\ sheet_data = NoRow
    /\ result_message = NoMessage

\* No invocation of the daily rollup is modelled.
RollupOff ==
    /\ values = <<>>
    /\ today_str = <<>>
    /\ rpc = "off"
    /\ ri = 0
    /\ daily = ZeroTotals
    /\ reports = <<>>
    /\ notices = <<>>
    /\ statusCode = 0

\* No webhook is modelled.
GatewayOff ==
    /\ sqs = <<>>
    /\ acks = <<>>
    /\ hooks = <<>>

\* ------------------------------------------------------------------- Init

Init ==
    /\ queue \in Queues(Bodies)
    /\ ledger = [k \in Keys |-> Absent]
    /\ now = 0
    /\ rows = [k \in Keys |-> 0]
    /\ sent = Nothing
    /\ failures = 0
    /\ pc = [w \in Consumers |-> "idle"]
    /\ batch = [w \in Consumers |-> <<>>]
    /\ idx = [w \in Consumers |-> 0]
    /\ item = [w \in Consumers |-> "NONE"]
    /\ chk = [w \in Consumers |-> "none"]
    /\ vis = [w \in Consumers |-> "none"]
    /\ err = [w \in Consumers |-> "none"]
    /\ steps = [w \in Consumers |-> <<>>]
    /\ MealOff
    /\ RollupOff
    /\ GatewayOff

\* ------------------------------------------------------- shared step parts

\* A step raises into lambda_handler's except clause (or out of its set-up):
\* one more of the exceptions a behaviour may hold.  Every such raise counts,
\* that of an external call and that of a malformed body.
Failing ==
    /\ failures < MaxFailures
    /\ failures' = failures + 1

\* An exception leaves process_meal_from_message (or json.loads) and is
\* caught by lambda_handler's except Exception.
Raise(w, e) ==
    /\ pc' = [pc EXCEPT ![w] = "apology"]
    /\ err' = [err EXCEPT ![w] = e]
    /\ idx' = idx

\* process_meal_from_message returned: the for loop takes the next record,
\* or lambda_handler returns.
Returned(w) ==
    /\ err' = err
    /\ IF idx[w] < Len(batch[w])
         THEN /\ idx' = [idx EXCEPT ![w] = idx[w] + 1]
              /\ pc' = [pc EXCEPT ![w] = "check"]
         ELSE /\ idx' = idx
              /\ pc' = [pc EXCEPT ![w] = "done"]

\* The next statement of process_meal_from_message.
Goto(w, p) ==
    /\ pc' = [pc EXCEPT ![w] = p]
    /\ err' = err
    /\ idx' = idx

\* Telegram delivers one message of kind m about the work item with key k.
Delivered(k, m) == sent' = [chat |-> k, kind |-> m]

\* The step sends nothing, or its send fails.
Silent == sent' = Nothing

\* One call of process_meal_from_message, and whether it returned normally
\* with its effect done.
Call(s, ok) == [step |-> s, ok |-> ok]

\* The calls the step makes for the record of w, one after the other.
Calls(w, es) == steps' = [steps EXCEPT ![w] = steps[w] \o es]

\* The first call for a record.
FirstCalls(w, es) == steps' = [steps EXCEPT ![w] = es]

\* ---------------------------------------------------------------- actions

\* SQS invokes lambda_handler with a batch of visible messages; the handler
\* loads its configuration, and raises at once when that fails.  Consumers
\* hold nothing between invocations, so the batch goes to the first idle one.
Invoke(w, b) ==
    /\ pc[w] = "idle"
    /\ \A v \in Consumers : v < w => pc[v] # "idle"
    /\ b \in Batches
    /\ queue' = [x \in Bodies |-> queue[x] - Count(b, x)]
    /\ batch' = [batch EXCEPT ![w] = b]
    /\ \/ /\ idx' = [idx EXCEPT ![w] = 1]
          /\ pc' = [pc EXCEPT ![w] = "check"]
          /\ UNCHANGED <<failures, err>>
       \/ /\ Failing
          /\ idx' = idx
          /\ pc' = [pc EXCEPT ![w] = "raised"]
          /\ err' = [err EXCEPT ![w] = "ConfigError"]
    /\ Silent
    /\ FirstCalls(w, <<>>)
    /\ UNCHANGED <<ledger, now, rows, item, chk, vis>>
    /\ UNCHANGED <<mvars, rvars, gvars>>

\* json.loads(record['body']), message_body['idempotency_key'] and the first
\* half of _check_and_update_idempotency: table.get_item and the two status
\* tests.
GetItem(w) ==
    /\ pc[w] = "check"
    /\ vis' = [vis EXCEPT ![w] = "none"]
    /\ \/ /\ ~Parses(Cur(w))
          /\ Failing
          /\ Raise(w, "JSONDecodeError")
          /\ item' = [item EXCEPT ![w] = "NONE"]
          /\ chk' = [chk EXCEPT ![w] = "none"]
          /\ FirstCalls(w, <<>>)
       \/ /\ Parses(Cur(w)) /\ ~HasKey(Cur(w))
          /\ Failing
          /\ Raise(w, "KeyError")
          /\ item' = [item EXCEPT ![w] = "NONE"]
          /\ chk' = [chk EXCEPT ![w] = "none"]
          /\ FirstCalls(w, <<>>)
       \/ /\ HasKey(Cur(w))
          /\ Failing
          /\ item' = [item EXCEPT ![w] = "NONE"]
          /\ IF OnClientError(StorageError) = "raise"
               THEN /\ Raise(w, "ClientError")
                    /\ chk' = [chk EXCEPT ![w] = "raised"]
                    /\ FirstCalls(w, <<Call("check", FALSE)>>)
               ELSE /\ chk' = [chk EXCEPT ![w] = "skip_conflict"]
                    /\ Returned(w)
                    /\ FirstCalls(w, <<Call("check", TRUE)>>)
       \/ /\ HasKey(Cur(w))
          /\ UNCHANGED failures
          /\ item' = [item EXCEPT ![w] = ledger[CurKey(w)].status]
          /\ LET d == StatusDecision(ledger[CurKey(w)].status) IN
               \/ /\ d = "completed"
                  /\ chk' = [chk EXCEPT ![w] = "skip_completed"]
                  /\ Returned(w)
                  /\ FirstCalls(w, <<Call("check", TRUE)>>)
               \/ /\ d = "retry"
                  /\ chk' = [chk EXCEPT ![w] = "proceed_retry"]
                  /\ Goto(w, "fetch")
                  /\ FirstCalls(w, <<Call("check", TRUE)>>)
               \/ /\ d = "new"
                  /\ chk' = [chk EXCEPT ![w] = "none"]
                  /\ Goto(w, "put")
                  /\ FirstCalls(w, <<>>)
    /\ Silent
    /\ UNCHANGED <<queue, ledger, now, rows, batch>>
    /\ UNCHANGED <<mvars, rvars, gvars>>

\* The second half of _check_and_update_idempotency: the conditional
\* table.put_item and the except ClientError clause.
PutItem(w) ==
    /\ pc[w] = "put"
    /\ \/ /\ Failing
          /\ IF OnClientError(StorageError) = "raise"
               THEN /\ Raise(w, "ClientError")
                    /\ chk' = [chk EXCEPT ![w] = "raised"]
                    /\ FirstCalls(w, <<Call("check", FALSE)>>)
               ELSE /\ chk' = [chk EXCEPT ![w] = "skip_conflict"]
                    /\ Returned(w)
                    /\ FirstCalls(w, <<Call("check", TRUE)>>)
          /\ UNCHANGED ledger
       \/ /\ ~ConditionHolds(ledger[CurKey(w)])
          /\ OnClientError("ConditionalCheckFailedException") = "skip"
          /\ chk' = [chk EXCEPT ![w] = "skip_conflict"]
          /\ Returned(w)
          /\ FirstCalls(w, <<Call("check", TRUE)>>)
          /\ UNCHANGED <<ledger, failures>>
       \/ /\ ConditionHolds(ledger[CurKey(w)])
          /\ ledger' = [ledger EXCEPT ![CurKey(w)] = NewRecord(now)]
          /\ chk' = [chk EXCEPT ![w] = "proceed_new"]
          /\ Goto(w, "fetch")
          /\ FirstCalls(w, <<Call("check", TRUE)>>)
          /\ UNCHANGED failures
    /\ Silent
    /\ UNCHANGED <<queue, now, rows, batch, item, vis>>
    /\ UNCHANGED <<mvars, rvars, gvars>>

\* The steps of process_meal_from_message that touch nothing shared, in the
\* order of the code, each run only when the one before it returned:
\* message_body['chat_id'] (KeyError), get_telegram_image (HTTPError),
\* _get_food_items_from_image (the NO_FOOD sentinel and the empty response,
\* a ValueError that is caught, both give None; any other exception of the
\* vision call propagates) and _calculate_meal_nutrition (the per-mention
\* lookups are tolerated, an exception of the disambiguation call is not).
Analyse(w) ==
    /\ pc[w] = "fetch"
    /\ \/ /\ ~HasChatId(Cur(w))
          /\ Failing
          /\ vis' = vis
          /\ Raise(w, "KeyError")
          /\ Calls(w, <<>>)
       \/ /\ HasChatId(Cur(w))
          /\ Failing
          /\ vis' = vis
          /\ Raise(w, "HTTPError")
          /\ Calls(w, <<Call("fetch", FALSE)>>)
       \/ /\ HasChatId(Cur(w))
          /\ Failing
          /\ vis' = vis
          /\ Raise(w, "GeminiError")
          /\ Calls(w, <<Call("fetch", TRUE), Call("vision", FALSE)>>)
       \/ /\ HasChatId(Cur(w))
          /\ vis' = [vis EXCEPT ![w] = "nofood"]
          /\ Goto(w, "notify_none")
          /\ Calls(w, <<Call("fetch", TRUE), Call("vision", TRUE)>>)
          /\ UNCHANGED failures
       \/ /\ HasChatId(Cur(w))
          /\ vis' = [vis EXCEPT ![w] = "empty"]
          /\ Goto(w, "notify_none")
          /\ Calls(w, <<Call("fetch", TRUE), Call("vision", TRUE)>>)
          /\ UNCHANGED failures
       \/ /\ HasChatId(Cur(w))
          /\ Failing
          /\ vis' = [vis EXCEPT ![w] = "food"]
          /\ Raise(w, "PickerError")
          /\ Calls(w, <<Call("fetch", TRUE), Call("vision", TRUE),
                        Call("resolve", FALSE)>>)
       \/ /\ HasChatId(Cur(w))
          /\ vis' = [vis EXCEPT ![w] = "food"]
          /\ Goto(w, "append")
          /\ Calls(w, <<Call("fetch", TRUE), Call("vision", TRUE),
                        Call("resolve", TRUE)>>)
          /\ UNCHANGED failures
    /\ Silent
    /\ UNCHANGED <<queue, ledger, now, rows, batch, item, chk>>
    /\ UNCHANGED <<mvars, rvars, gvars>>

\* send_telegram_message of the NO_FOOD branch and of the except ValueError
\* clause of _get_food_items_from_image; both return None to the caller.
NotifyNone(w) ==
    /\ pc[w] = "notify_none"
    /\ \/ /\ Delivered(CurKey(w), NoneMessage(vis[w]))
          /\ Goto(w, "complete")
          /\ Calls(w, <<Call("notify", TRUE)>>)
          /\ UNCHANGED failures
       \/ /\ Failing
          /\ IF NotifierRaises
               THEN Raise(w, "RequestException")
               ELSE Goto(w, "complete")
          /\ Calls(w, <<Call("notify", FALSE)>>)
          /\ Silent
    /\ UNCHANGED <<queue, ledger, now, rows, batch, item, chk, vis>>
    /\ UNCHANGED <<mvars, rvars, gvars>>

\* write_to_google_sheets: one row appended to Meals!A:F.
AppendRow(w) ==
    /\ pc[w] = "append"
    /\ \/ /\ rows' = [rows EXCEPT ![CurKey(w)] = rows[CurKey(w)] + 1]
          /\ Goto(w, "notify")
          /\ Calls(w, <<Call("append", TRUE)>>)
          /\ UNCHANGED failures
       \/ /\ Failing
          /\ Raise(w, "SheetsError")
          /\ Calls(w, <<Call("append", FALSE)>>)
          /\ UNCHANGED rows
    /\ Silent
    /\ UNCHANGED <<queue, ledger, now, batch, item, chk, vis>>
    /\ UNCHANGED <<mvars, rvars, gvars>>

\* send_telegram_message(chat_id, result_message, ...).
Notify(w) ==
    /\ pc[w] = "notify"
    /\ \/ /\ Delivered(CurKey(w), "summary")
          /\ Goto(w, "complete")
          /\ Calls(w, <<Call("notify", TRUE)>>)
          /\ UNCHANGED failures
       \/ /\ Failing
          /\ IF NotifierRaises
               THEN Raise(w, "RequestException")
               ELSE Goto(w, "complete")
          /\ Calls(w, <<Call("notify", FALSE)>>)
          /\ Silent
    /\ UNCHANGED <<queue, ledger, now, rows, batch, item, chk, vis>>
    /\ UNCHANGED <<mvars, rvars, gvars>>

\* table.update_item setting the status to COMPLETED, on the food path and on
\* the food_items is None path, and the return that follows it.
Complete(w) ==
    /\ pc[w] = "complete"
    /\ \/ /\ ledger' = [ledger EXCEPT ![CurKey(w)] = CompletedRecord(ledger[CurKey(w)])]
          /\ Returned(w)
          /\ Calls(w, <<Call("complete", TRUE)>>)
          /\ UNCHANGED failures
       \/ /\ Failing
          /\ Raise(w, "ClientError")
          /\ Calls(w, <<Call("complete", FALSE)>>)
          /\ UNCHANGED ledger
    /\ Silent
    /\ UNCHANGED <<queue, now, rows, batch, item, chk, vis>>
    /\ UNCHANGED <<mvars, rvars, gvars>>

\* lambda_handler's except Exception clause: the body is parsed again, the
\* apology is sent when it holds a chat_id, a failure of either is logged, and
\* the handler is left as HandlerExit says.
Apology(w) ==
    /\ pc[w] = "apology"
    /\ \E failed \in BOOLEAN :
          /\ \/ /\ ~Parses(Cur(w))
                /\ failed
                /\ Silent
                /\ UNCHANGED failures
             \/ /\ Parses(Cur(w)) /\ ~HasChatId(Cur(w))
                /\ ~failed
                /\ Silent
                /\ UNCHANGED failures
             \/ /\ HasChatId(Cur(w))
                /\ ~failed
                /\ Delivered(CurKey(w), "apology")
                /\ UNCHANGED failures
             \/ /\ HasChatId(Cur(w))
                /\ failed
                /\ Silent
                /\ UNCHANGED failures
          /\ pc' = [pc EXCEPT ![w] = HandlerExit(err[w], failed).pc]
          /\ err' = [err EXCEPT ![w] = HandlerExit(err[w], failed).err]
    /\ UNCHANGED <<queue, ledger, now, rows, batch, idx, item, chk, vis, steps>>
    /\ UNCHANGED <<mvars, rvars, gvars>>

\* The invocation is over.  SQS deletes the batch of a handler that returned
\* and makes the batch of a handler that raised visible again.
Return(w) ==
    /\ \/ /\ pc[w] = "done"
          /\ UNCHANGED queue
       \/ /\ pc[w] = "raised"
          /\ queue' = [x \in Bodies |-> queue[x] + Count(batch[w], x)]
    /\ pc' = [pc EXCEPT ![w] = "idle"]
    /\ batch' = [batch EXCEPT ![w] = <<>>]
    /\ idx' = [idx EXCEPT ![w] = 0]
    /\ item' = [item EXCEPT ![w] = "NONE"]
    /\ chk' = [chk EXCEPT ![w] = "none"]
    /\ vis' = [vis EXCEPT ![w] = "none"]
    /\ err' = [err EXCEPT ![w] = "none"]
    /\ steps' = [steps EXCEPT ![w] = <<>>]
    /\ Silent
    /\ UNCHANGED <<ledger, now, rows, failures>>
    /\ UNCHANGED <<mvars, rvars, gvars>>

\* A day passes.  No invocation lasts a day, so none is running.
Tick ==
    /\ now < MaxDays * TTL_SECONDS
    /\ \A w \in Consumers : pc[w] = "idle"
    /\ now' = now + TTL_SECONDS
    /\ Silent
    /\ UNCHANGED <<queue, ledger, rows, failures,
                   pc, batch, idx, item, chk, vis, err, steps>>
    /\ UNCHANGED <<mvars, rvars, gvars>>

\* DynamoDB's time-to-live removes an item whose ttl attribute has passed.
Expire(k) ==
    /\ ledger[k] # Absent
    /\ ledger[k].ttl # NoTtl
    /\ ledger[k].ttl <= now
    /\ ledger' = [ledger EXCEPT ![k] = Absent]
    /\ Silent
    /\ UNCHANGED <<queue, now, rows, failures,
                   pc, batch, idx, item, chk, vis, err, steps>>
    /\ UNCHANGED <<mvars, rvars, gvars>>

Next ==
    \/ \E w \in Consumers : \E b \in Batches : Invoke(w, b)
    \/ \E w \in Consumers : GetItem(w)
    \/ \E w \in Consumers : PutItem(w)
    \/ \E w \in Consumers : Analyse(w)
    \/ \E w \in Consumers : NotifyNone(w)
    \/ \E w \in Consumers : AppendRow(w)
    \/ \E w \in Consumers : Notify(w)
    \/ \E w \in Consumers : Complete(w)
    \/ \E w \in Consumers : Apology(w)
    \/ \E w \in Consumers : Return(w)
    \/ Tick
    \/ \E k \in Keys : Expire(k)

Spec == Init /\ [][Next]_vars

\* ---------------------------------------------------- redelivery, fairly
\* The gateway of src/client_lambda.py only: every message is a well-formed
\* work item.
WorkItems == [kind : {"ok"}, key : Keys]

LiveInit == Init /\ queue \in Queues(WorkItems)

\* One step of the invocation that consumer w runs.
Run(w) ==
    \/ GetItem(w)
    \/ PutItem(w)
    \/ Analyse(w)
    \/ NotifyNone(w)
    \/ AppendRow(w)
    \/ Notify(w)
    \/ Complete(w)
    \/ Apology(w)
    \/ Return(w)

Deliver(w) == \E b \in Batches : Invoke(w, b)

\* SQS keeps delivering the messages that are visible, a message that failed
\* among them, and an invocation runs to its end; MaxFailures bounds the
\* exceptions, so every external call succeeds in the end.
LiveSpec ==
    /\ LiveInit
    /\ [][Next]_vars
    /\ \A w \in Consumers : WF_vars(Deliver(w)) /\ WF_vars(Run(w))

\* ------------------------------------- the meal: resolver and aggregator

\* The meals: lists of at most MaxItems mentions of the Menu.
Meals == UNION {[1..n -> Menu] : n \in 1..MaxItems}

\* No invocation of lambda_handler is modelled: the queue is empty.
PipelineOff ==
    /\ queue = [x \in Bodies |-> 0]
    /\ ledger = [k \in Keys |-> Absent]
    /\ now = 0
    /\ rows = [k \in Keys |-> 0]
    /\ sent = Nothing
    /\ failures = 0
    /\ pc = [w \in Consumers |-> "idle"]
    /\ batch = [w \in Consumers |-> <<>>]
    /\ idx = [w \in Consumers |-> 0]
    /\ item = [w \in Consumers |-> "NONE"]
    /\ chk = [w \in Consumers |-> "none"]
    /\ vis = [w \in Consumers |-> "none"]
    /\ err = [w \in Consumers |-> "none"]
    /\ steps = [w \in Consumers |-> <<>>]

\* _calculate_meal_nutrition is called with the mentions of M.
MealStart(M) ==
    /\ food_items \in M
    /\ mpc = "parse"
    /\ mi = 1
    /\ weight = 0
    /\ food_name = <<>>
    /\ responses = <<>>
    /\ all_foods = <<>>
    /\ seen_fdc_ids = {}
    /\ reply = NoReply
    /\ picks = 0
    /\ selected_food = 0
    /\ totals = ZeroTotals
    /\ resolved = <<>>
    /\ sheet_data = NoRow
    /\ result_message = NoMessage

MealInit == PipelineOff /\ MealStart(Meals) /\ RollupOff /\ GatewayOff

\* The for loop of _calculate_meal_nutrition goes on to the next mention, or
\* the function returns totals.  The mention it leaves is noted with the
\* weight w and the fdcId f that counted for it, 0 when none did.
NextMention(w, f) ==
    /\ resolved' = Append(resolved, [weight |-> w, food |-> f])
    /\ IF mi < Len(food_items)
         THEN mi' = mi + 1 /\ mpc' = "parse"
         ELSE mi' = mi /\ mpc' = "returned"

\* get_nutrition_data is not running: its locals hold nothing.
NoLookup ==
    /\ responses' = <<>>
    /\ all_foods' = <<>>
    /\ seen_fdc_ids' = {}

\* One turn of the for loop up to the call of get_nutrition_data: an empty
\* item is passed over, the weight and the name are parsed, and an item of
\* weight 0 is passed over.
ParseMention ==
    /\ mpc = "parse"
    /\ LET it == food_items[mi] IN
         IF it = <<>>
           THEN /\ UNCHANGED <<weight, food_name>>
                /\ NextMention(0, 0)
           ELSE /\ weight' = ParseWeight(it)
                /\ food_name' = ParseName(it)
                /\ IF ParseWeight(it) = 0
                     THEN NextMention(0, 0)
                     ELSE /\ mpc' = "query"
                          /\ UNCHANGED <<mi, resolved>>
    /\ NoLookup
    /\ UNCHANGED <<food_items, reply, picks, selected_food, totals,
                   sheet_data, result_message>>
    /\ UNCHANGED <<pvars, rvars, gvars>>

\* get_nutrition_data, one turn of the for loop over data_types: the search
\* of the next data type answers r; after the last one the function returns
\* None when all_foods is empty.
QueryPartition ==
    /\ mpc = "query"
    /\ \E r \in Responses :
         LET type == data_types[Len(responses) + 1]
             foods == IF r.ok THEN Merge(all_foods, seen_fdc_ids, r.foods)
                      ELSE all_foods
             last == Len(responses) + 1 = Len(data_types)
         IN  IF last /\ NoCandidates(foods)
               THEN /\ NoLookup
                    /\ selected_food' = 0
                    /\ NextMention(weight, 0)
               ELSE /\ responses' = Append(responses,
                          [type |-> type, ok |-> r.ok, foods |-> r.foods])
                    /\ all_foods' = foods
                    /\ seen_fdc_ids' = {foods[i] : i \in DOMAIN foods}
                    /\ mpc' = IF last THEN "pick" ELSE "query"
                    /\ UNCHANGED <<mi, resolved, selected_food>>
    /\ UNCHANGED <<food_items, weight, food_name, reply, picks, totals,
                   sheet_data, result_message>>
    /\ UNCHANGED <<pvars, rvars, gvars>>

\* get_nutrition_data from the picker call to the return: generate_content
\* raises; or picker_response.text raises ValueError, in the try and again in
\* the warning of the except clause; or the text is parsed and a food
\* selected, the first one when int() raises ValueError (of an empty list
\* there is no first one: the except clause raises IndexError).
Pick ==
    /\ mpc = "pick"
    /\ \E r \in Replies :
         /\ reply' = r
         /\ IF r.kind \in {"raises", "notext"} \/ all_foods = <<>>
              THEN /\ mpc' = "raised"
                   /\ UNCHANGED selected_food
              ELSE /\ mpc' = "add"
                   /\ selected_food' =
                        IF IntText(r.text).ok
                          THEN Select(all_foods, IntText(r.text).value)
                          ELSE all_foods[1]
    /\ picks' = picks + 1
    /\ NoLookup
    /\ UNCHANGED <<food_items, mi, weight, food_name, totals, resolved,
                   sheet_data, result_message>>
    /\ UNCHANGED <<pvars, rvars, gvars>>

\* The rest of the turn: the nutrients of the food found are added to totals.
AddNutrients ==
    /\ mpc = "add"
    /\ totals' = Accumulate(totals, FoodNutrients(selected_food), weight)
    /\ NextMention(weight, selected_food)
    /\ UNCHANGED <<food_items, weight, food_name, responses, all_foods,
                   seen_fdc_ids, reply, picks, selected_food,
                   sheet_data, result_message>>
    /\ UNCHANGED <<pvars, rvars, gvars>>

\* process_meal_from_message: sheet_data is built from food_items and the
\* totals and handed to write_to_google_sheets.
WriteRow ==
    /\ mpc = "returned"
    /\ sheet_data' = [items |-> food_items, totals |-> totals, written |-> TRUE]
    /\ mpc' = "written"
    /\ UNCHANGED <<food_items, mi, weight, food_name, responses, all_foods,
                   seen_fdc_ids, reply, picks, selected_food, totals, resolved,
                   result_message>>
    /\ UNCHANGED <<pvars, rvars, gvars>>

\* process_meal_from_message: _format_result_message lists the items that
\* are not empty and the totals, and the message is sent.
SendSummary ==
    /\ mpc = "written"
    /\ result_message' =
          [items |-> SelectSeq(food_items, LAMBDA m : m # <<>>),
           totals |-> totals, sent |-> TRUE]
    /\ mpc' = "notified"
    /\ UNCHANGED <<food_items, mi, weight, food_name, responses, all_foods,
                   seen_fdc_ids, reply, picks, selected_food, totals, resolved,
                   sheet_data>>
    /\ UNCHANGED <<pvars, rvars, gvars>>

MealNext ==
    \/ ParseMention
    \/ QueryPartition
    \/ Pick
    \/ AddNutrients
    \/ WriteRow
    \/ SendSummary

MealSpec == MealInit /\ [][MealNext]_vars

\* One mention of Mentions, or two of the Menu, parsed and no more.
ParseInit ==
    /\ PipelineOff
    /\ MealStart({<<m>> : m \in Mentions} \cup [1..2 -> Menu])
    /\ RollupOff
    /\ GatewayOff

ParseSpec == ParseInit /\ [][ParseMention]_vars

\* ------------------------------------- the daily rollup (reporter_lambda)
MaxRows == 2      \* data rows of the Meals sheet, after its first row

\* float(row[c]) of a cell with no point and no exponent: blanks around it are
\* dropped and an optional sign and digits give the value; any other text
\* raises ValueError (ok FALSE).
FloatText(t) == IntText(t)

\* row[0].split(' ')[0]: the text before the first blank, the whole text when
\* it has none.
DateField(t) ==
    LET blanks == {i \in DOMAIN t : t[i] = " "} IN
    IF blanks = {} THEN t
    ELSE SubSeq(t, 1, (CHOOSE i \in blanks : \A j \in blanks : i <= j) - 1)

\* The totals in the order lines 85-88 add to them, and the cell of each:
\* row[2], row[3], row[4], row[5], counted from 1 here.
TotalsOrder == <<"calories", "protein", "carbs", "fat">>
CellOf == [calories |-> 3, protein |-> 4, carbs |-> 5, fat |-> 6]

\* Lines 85-88 from the c-th addition on: each statement adds its cell to its
\* total, and the first one that raises (IndexError for a cell the row does not
\* have, ValueError for one that float() rejects) ends the try block with the
\* additions before it done.
RECURSIVE AddCells(_, _, _)
AddCells(t, row, c) ==
    IF c > Len(TotalsOrder) THEN t
    ELSE LET n == TotalsOrder[c] IN
         IF CellOf[n] > Len(row) THEN t
         ELSE IF ~FloatText(row[CellOf[n]]).ok THEN t
         ELSE AddCells([t EXCEPT ![n] = @ + FloatText(row[CellOf[n]]).value],
                       row, c + 1)

\* One turn of the for loop of calculate_daily_totals: an empty row is passed
\* over, and so is a row of another date.
AddRow(t, row, today) ==
    IF row = <<>> THEN t
    ELSE IF DateField(row[1]) # today THEN t
    ELSE AddCells(t, row, 1)

\* The texts of the first column: a timestamp of day a, one of day b, a date
\* with no time, and a date that only starts like day a.
Stamps == {<<"a", " ", "7">>, <<"b", " ", "7">>, <<"a">>, <<"a", "b">>}

\* The target dates.
Dates == {<<"a">>, <<"b">>}

\* The texts of a nutrient cell: a number, a number after a blank, and a cell
\* that is no number.
NutrientCells == {<<"2">>, <<" ", "7">>, <<"a">>}

\* The rows of six cells, and the rows the Sheets API returns when the cells
\* at the end of a row are empty: the row without them.
FullRows ==
    {<<s, <<"a">>>> \o c : s \in Stamps, c \in [1..4 -> NutrientCells]}

ShortRows ==
    {SubSeq(<<s, <<"a">>, <<"2">>, <<"7">>, <<"2">>, <<"7">>>>, 1, n) :
        s \in Stamps, n \in 0..5}

\* The first row of the sheet: the column titles, or a row of day a where
\* the titles should be.
FirstRows ==
    {<<<<"a">>, <<"a">>, <<"a">>, <<"a">>, <<"a">>, <<"a">>>>,
     <<<<"a", " ", "7">>, <<"a">>, <<"7">>, <<"7">>, <<"7">>, <<"7">>>>}

\* result.get('values', []): no rows at all, or a first row and at most
\* MaxRows rows of R after it.
Sheets(R) ==
    {<<>>} \cup {<<h>> \o d : h \in FirstRows,
                              d \in UNION {[1..n -> R] : n \in 0..MaxRows}}

\* The rows a rollup of the whole handler reads after the first one.
DayRows ==
    {<<>>,
     <<<<"a", " ", "7">>, <<"a">>, <<"2">>, <<" ", "7">>, <<"2">>, <<"2">>>>,
     <<<<"b", " ", "7">>, <<"a">>, <<"2">>, <<"2">>, <<"2">>, <<" ", "7">>>>,
     <<<<"a">>, <<"a">>, <<"2">>, <<"a">>, <<"2">>, <<"2">>>>,
     <<<<"a", " ", "7">>, <<"a">>, <<"2">>, <<"2">>>>}

\* A sheet test that takes the first row of a sheet for a meal.
SheetEmpty_NoRowsOnly(v) == v = <<>>

\* Line 115, not values or len(values) <= 1: the sheet has no row, or one row
\* (its titles).
SheetEmpty(v) == v = <<>> \/ Len(v) <= 1

\* A text handed to the rollup's send_telegram_message, which logs a
\* RequestException and returns: the send never changes what the handler does.
Notice(kind, ok) == [kind |-> kind, delivered |-> ok]

\* The rollup's lambda_handler is invoked on a sheet of S, and today is one
\* of Dates.
RollupStart(S) ==
    /\ values \in S
    /\ today_str \in Dates
    /\ rpc = "read"
    /\ ri = 0
    /\ daily = ZeroTotals
    /\ reports = <<>>
    /\ notices = <<>>
    /\ statusCode = 0

RollupInit ==
    /\ PipelineOff /\ MealOff /\ GatewayOff
    /\ RollupStart(Sheets(DayRows))

\* Lines 105-119: the sheet is read; with no row or one row the "No meals
\* were logged" text is sent and 200 returned.  A read that raises goes to
\* the except clause.
RollupRead ==
    /\ rpc = "read"
    /\ \/ /\ rpc' = "except"
          /\ UNCHANGED <<ri, notices, statusCode>>
       \/ /\ SheetEmpty(values)
          /\ \E ok \in BOOLEAN : notices' = Append(notices, Notice("nothing", ok))
          /\ statusCode' = 200
          /\ rpc' = "returned"
          /\ UNCHANGED ri
       \/ /\ ~SheetEmpty(values)
          /\ ri' = 2
          /\ rpc' = "rows"
          /\ UNCHANGED <<notices, statusCode>>
    /\ UNCHANGED <<values, today_str, daily, reports>>
    /\ UNCHANGED <<pvars, mvars, gvars>>

\* calculate_daily_totals, one turn of the loop over sheet_values[1:]; after
\* the last row the totals are returned.
RollupRow ==
    /\ rpc = "rows"
    /\ daily' = AddRow(daily, values[ri], today_str)
    /\ ri' = ri + 1
    /\ rpc' = IF ri = Len(values) THEN "append" ELSE "rows"
    /\ UNCHANGED <<values, today_str, reports, notices, statusCode>>
    /\ UNCHANGED <<pvars, mvars, gvars>>

\* Lines 133-147: the summary row (the date and the totals, which round()
\* leaves as they are: they are whole numbers) is appended to Daily_Reports.
\* An append that raises goes to the except clause.
RollupAppend ==
    /\ rpc = "append"
    /\ \/ /\ reports' = Append(reports, [date |-> today_str, totals |-> daily])
          /\ rpc' = "notify"
       \/ /\ rpc' = "except"
          /\ UNCHANGED reports
    /\ UNCHANGED <<values, today_str, ri, daily, notices, statusCode>>
    /\ UNCHANGED <<pvars, mvars, gvars>>

\* Lines 151-160: the summary is sent and 200 returned.
RollupNotify ==
    /\ rpc = "notify"
    /\ \E ok \in BOOLEAN : notices' = Append(notices, Notice("summary", ok))
    /\ statusCode' = 200
    /\ rpc' = "returned"
    /\ UNCHANGED <<values, today_str, ri, daily, reports>>
    /\ UNCHANGED <<pvars, mvars, gvars>>

\* Lines 162-171: the except clause sends the "Failed to generate" text and
\* returns 500.
RollupExcept ==
    /\ rpc = "except"
    /\ \E ok \in BOOLEAN : notices' = Append(notices, Notice("error", ok))
    /\ statusCode' = 500
    /\ rpc' = "returned"
    /\ UNCHANGED <<values, today_str, ri, daily, reports>>
    /\ UNCHANGED <<pvars, mvars, gvars>>

RollupNext ==
    \/ RollupRead
    \/ RollupRow
    \/ RollupAppend
    \/ RollupNotify
    \/ RollupExcept

RollupSpec == RollupInit /\ [][RollupNext]_vars

\* calculate_daily_totals alone, called with any sheet of full and short
\* rows; position "append" is its return.
TotalsInit ==
    /\ PipelineOff /\ MealOff /\ GatewayOff
    /\ values \in Sheets(FullRows \cup ShortRows)
    /\ today_str \in Dates
    /\ rpc = IF Len(values) > 1 THEN "rows" ELSE "append"
    /\ ri = 2
    /\ daily = ZeroTotals
    /\ reports = <<>>
    /\ notices = <<>>
    /\ statusCode = 0

TotalsSpec == TotalsInit /\ [][RollupRow]_vars

\* --------------------------------------------------- the inbound gateways
MaxWebhooks == 2      \* webhooks the gateways handle

\* str() of a digit, and of an integer: f"{n}".
DigitText(d) ==
    CASE d = 0 -> "0" [] d = 1 -> "1" [] d = 2 -> "2" [] d = 3 -> "3"
      [] d = 4 -> "4" [] d = 5 -> "5" [] d = 6 -> "6" [] d = 7 -> "7"
      [] d = 8 -> "8" [] d = 9 -> "9"

RECURSIVE Str(_)
Str(n) ==
    IF n < 0 THEN <<"-">> \o Str(0 - n)
    ELSE IF n < 10 THEN <<DigitText(n)>>
    ELSE Str(n \div 10) \o <<DigitText(n % 10)>>

\* idempotency_key = f"{chat_id}-{message_id}"
IdempotencyKey(chat_id, message_id) ==
    Str(chat_id) \o <<"-">> \o Str(message_id)

\* body['message']['chat']['id'] (a group chat has a negative id) and
\* body['message']['message_id'].
ChatIds == {-1, 1, 11}
MessageIds == {1, 2, 12}

\* body['message']['photo']: the sizes of the photo, as their file ids.
Photos == {<<"f1">>, <<"f1", "f2">>}

\* The webhooks: the secret token of the header is right or not (the older
\* gateway does not look), and the body is a message with a photo, a message
\* without one, or not JSON.
Webhooks ==
    [token : BOOLEAN, form : {"photo", "text", "garbled"},
     chat : ChatIds, message_id : MessageIds, photo : Photos]

\* The gateways: "client" is src/client_lambda.py, "older" is
\* src/client_lambda/client_lambda.py.
Gateways == {"client", "older"}

\* sqs_message of src/client_lambda.py: a JSON object of three names.
WorkItem(h) ==
    [names |-> {"chat_id", "file_id", "idempotency_key"},
     chat_id |-> h.chat,
     file_id |-> h.photo[Len(h.photo)],
     idempotency_key |-> IdempotencyKey(h.chat, h.message_id)]

\* sqs_message of src/client_lambda/client_lambda.py: a JSON object of two
\* names (idempotency_key holds nothing).
WorkItemOlder(h) ==
    [names |-> {"chat_id", "file_id"},
     chat_id |-> h.chat,
     file_id |-> h.photo[Len(h.photo)],
     idempotency_key |-> <<>>]

\* One webhook handled, with the statusCode returned for it.
Handled(g, h, code) ==
    hooks' = Append(hooks, [gateway |-> g, hook |-> h, statusCode |-> code])

GatewayInit ==
    /\ PipelineOff /\ MealOff /\ RollupOff
    /\ sqs = <<>>
    /\ acks = <<>>
    /\ hooks = <<>>

\* lambda_handler of src/client_lambda.py on webhook h: 403 for a wrong
\* token, 500 without the queue's URL, 400 for a body that is not JSON, 200
\* and nothing to do for a message with no photo; else the "Processing your
\* meal..." text is sent and the work item put on the queue.  The shared
\* send_telegram_message raises when the send fails, so that either call can
\* end the handler in its except clause, which sends an apology and returns
\* 500.
Gateway(h) ==
    /\ Len(hooks) < MaxWebhooks
    /\ \/ /\ ~h.token
          /\ Handled("client", h, 403)
          /\ UNCHANGED <<sqs, acks>>
       \/ /\ h.token
          /\ Handled("client", h, 500)
          /\ UNCHANGED <<sqs, acks>>
       \/ /\ h.token /\ h.form = "garbled"
          /\ Handled("client", h, 400)
          /\ UNCHANGED <<sqs, acks>>
       \/ /\ h.token /\ h.form = "text"
          /\ Handled("client", h, 200)
          /\ UNCHANGED <<sqs, acks>>
       \/ /\ h.token /\ h.form = "photo"
          /\ \E sorry \in BOOLEAN :
               acks' = acks \o (IF sorry THEN <<[chat |-> h.chat, kind |-> "apology"]>>
                                ELSE <<>>)
          /\ Handled("client", h, 500)
          /\ UNCHANGED sqs
       \/ /\ h.token /\ h.form = "photo"
          /\ \E sorry \in BOOLEAN :
               acks' = Append(acks, [chat |-> h.chat, kind |-> "processing"])
                          \o (IF sorry THEN <<[chat |-> h.chat, kind |-> "apology"]>>
                              ELSE <<>>)
          /\ Handled("client", h, 500)
          /\ UNCHANGED sqs
       \/ /\ h.token /\ h.form = "photo"
          /\ acks' = Append(acks, [chat |-> h.chat, kind |-> "processing"])
          /\ sqs' = Append(sqs, [gateway |-> "client", hook |-> h,
                                 body |-> WorkItem(h)])
          /\ Handled("client", h, 200)
    /\ UNCHANGED <<pvars, mvars, rvars>>

\* lambda_handler of src/client_lambda/client_lambda.py on webhook h: no
\* token is looked at; a body that is not JSON ends in the except clause with
\* 500; its own send_telegram_message logs a failure and returns, so that
\* only sqs.send_message can fail once a photo is there.
GatewayOlder(h) ==
    /\ Len(hooks) < MaxWebhooks
    /\ \/ /\ h.form = "garbled"
          /\ Handled("older", h, 500)
          /\ UNCHANGED <<sqs, acks>>
       \/ /\ h.form = "text"
          /\ Handled("older", h, 200)
          /\ UNCHANGED <<sqs, acks>>
       \/ /\ h.form = "photo"
          /\ \E ack, sorry \in BOOLEAN :
               acks' = acks \o (IF ack THEN <<[chat |-> h.chat, kind |-> "processing"]>>
                                ELSE <<>>)
                            \o (IF sorry THEN <<[chat |-> h.chat, kind |-> "apology"]>>
                                ELSE <<>>)
          /\ Handled("older", h, 500)
          /\ UNCHANGED sqs
       \/ /\ h.form = "photo"
          /\ \E ack \in BOOLEAN :
               acks' = acks \o (IF ack THEN <<[chat |-> h.chat, kind |-> "processing"]>>
                                ELSE <<>>)
          /\ sqs' = Append(sqs, [gateway |-> "older", hook |-> h,
                                 body |-> WorkItemOlder(h)])
          /\ Handled("older", h, 200)
    /\ UNCHANGED <<pvars, mvars, rvars>>

GatewayNext ==
    \/ \E h \in Webhooks : Gateway(h)
    \/ \E h \in Webhooks : GatewayOlder(h)

GatewaySpec == GatewayInit /\ [][GatewayNext]_vars

\* ----------------------------------------------------------------- claims

\* Consumer w takes the step that leaves position p: it moves on, or returns
\* from the record and starts the next one of its batch.
Took(w, p) == pc[w] = p /\ (pc'[w] # p \/ idx'[w] # idx[w])

\* process_meal_from_message returns normally in this step of w.
ReturnsNow(w) ==
    /\ err'[w] = "none"
    /\ \/ pc'[w] = "done" /\ idx'[w] = idx[w]
       \/ pc'[w] = "check" /\ idx'[w] = idx[w] + 1

\* The outcomes of the ledger check that let the pipeline run.
Proceeds == {"proceed_new", "proceed_retry"}

\* The record whose outcome chk[w] and vis[w] describe once
\* process_meal_from_message has returned for it.
Finished(w) == pc[w] = "done" \/ (pc[w] = "check" /\ idx[w] > 1)
LastKey(w) == batch[w][IF pc[w] = "check" THEN idx[w] - 1 ELSE idx[w]].key

NoEffect == ledger' = ledger /\ rows' = rows /\ sent' = Nothing

\* C1: once the ledger record of a key is COMPLETED, a delivery whose
\* get_item reads it returns from process_meal_from_message in that same
\* step: no image fetch or vision call, no row, no chat message, no ledger
\* write, no exception.
C1_CompletedShortCircuits ==
    [][\A w \in Consumers :
          (/\ Took(w, "check")
           /\ HasKey(Cur(w))
           /\ ledger[CurKey(w)].status = "COMPLETED"
           /\ chk'[w] # "raised")
          => /\ chk'[w] = "skip_completed"
             /\ ReturnsNow(w)
             /\ vis'[w] = "none"
             /\ NoEffect]_vars

C1_Witness ==
    \E w \in Consumers :
        /\ pc[w] = "done"
        /\ chk[w] = "skip_completed"
        /\ ledger[CurKey(w)].status = "COMPLETED"

\* C2 as claimed: no key ever has more than one row, and a key completed
\* through the food path has exactly one.
C2_OneRowPerKey ==
    /\ \A k \in Keys : rows[k] <= 1
    /\ \A w \in Consumers :
          (Finished(w) /\ chk[w] \in Proceeds /\ vis[w] = "food")
              => rows[LastKey(w)] = 1

\* C2 as amended: a row is appended only by the append step of an attempt
\* that passed the ledger check (it saw the key absent or PROCESSING, never
\* COMPLETED), one row per such step and one such step per attempt; and a key
\* completed through the food path has at least one row.
C2_OneRowPerProceedingAttempt ==
    /\ [](\A w \in Consumers :
            (Finished(w) /\ chk[w] \in Proceeds /\ vis[w] = "food")
                => rows[LastKey(w)] >= 1)
    /\ [][/\ \A k \in Keys :
               rows'[k] # rows[k]
                   => /\ rows'[k] = rows[k] + 1
                      /\ \A j \in Keys \ {k} : rows'[j] = rows[j]
                      /\ \E w \in Consumers :
                            /\ pc[w] = "append" /\ pc'[w] = "notify"
                            /\ CurKey(w) = k
                            /\ chk[w] \in Proceeds
                            /\ item[w] \in {"ABSENT", "PROCESSING"}
          /\ \A w \in Consumers :
               (pc'[w] = "append" /\ pc[w] # "append")
                   => pc[w] = "fetch" /\ chk[w] \in Proceeds]_vars

C2_Witness ==
    \E w \in Consumers :
        /\ Finished(w) /\ chk[w] = "proceed_retry" /\ vis[w] = "food"
        /\ rows[LastKey(w)] = 2
        /\ ledger[LastKey(w)].status = "COMPLETED"

\* C3: a conditional put_item on a key that has a record fails with the
\* conditional-check conflict and the consumer returns from the record without
\* raising and without any effect; a put_item on a key with no record inserts
\* the PROCESSING record.  So of two consumers that both read the key as
\* absent, the first to insert wins and the second is skipped.
C3_InsertRaceLoserSkips ==
    [][\A w \in Consumers :
          (Took(w, "put") /\ chk'[w] # "raised")
          => IF ledger[CurKey(w)] # Absent
               THEN /\ chk'[w] = "skip_conflict"
                    /\ ReturnsNow(w)
                    /\ vis'[w] = "none"
                    /\ NoEffect
               ELSE /\ chk'[w] = "proceed_new"
                    /\ pc'[w] = "fetch"
                    /\ ledger' = [ledger EXCEPT ![CurKey(w)] = NewRecord(now)]]_vars

C3_Witness ==
    \E w, v \in Consumers :
        /\ w # v
        /\ item[w] = "ABSENT" /\ chk[w] = "proceed_new" /\ pc[w] = "fetch"
        /\ item[v] = "ABSENT" /\ chk[v] = "skip_conflict" /\ pc[v] = "done"
        /\ CurKey(w) = CurKey(v)
        /\ ledger[CurKey(w)].status = "PROCESSING"
        /\ now = 0

\* C4 as claimed: a failure of the notifier never becomes the exception that
\* fails the work item.
C4_NotifierFailureNotEscalated ==
    \A w \in Consumers : err[w] # "RequestException"

\* The positions of process_meal_from_message after the ledger check.
AfterCheck == {"fetch", "notify_none", "append", "notify", "complete"}

\* C5: an attempt that passed the ledger check leaves the record PROCESSING
\* behind it, and when a later step of it raises, neither that step nor the
\* except clause of lambda_handler writes to the ledger (the record is not
\* completed and not deleted) and the exception leaves lambda_handler.
C5_FailureLeavesProcessing ==
    [][\A w \in Consumers :
          /\ (Took(w, "check") \/ Took(w, "put")) /\ chk'[w] \in Proceeds
                => ledger'[CurKey(w)].status = "PROCESSING"
          /\ (pc[w] \in AfterCheck /\ pc'[w] = "apology")
                => /\ ledger' = ledger
                   /\ err'[w] # "none"
                   /\ rows' = rows /\ sent' = Nothing
          /\ (pc[w] = "apology" /\ pc'[w] # "apology")
                => /\ ledger' = ledger
                   /\ pc'[w] = "raised"
                   /\ err'[w] = err[w] /\ err[w] # "none"]_vars

C5_Witness ==
    \E w \in Consumers :
        /\ pc[w] = "raised"
        /\ chk[w] \in Proceeds
        /\ err[w] \in {"HTTPError", "PickerError", "SheetsError", "ClientError"}
        /\ ledger[CurKey(w)].status = "PROCESSING"

\* C6: on the NO_FOOD sentinel nothing is raised and no row is appended; the
\* send that succeeds delivers the one "couldn't identify any food" message;
\* the update that succeeds sets the record to COMPLETED and the pipeline
\* returns; and a later delivery that reads the record as COMPLETED changes
\* neither the sheet, nor the chat, nor the ledger.
C6_NoFoodCompletes ==
    [][\A w \in Consumers :
          /\ (Took(w, "fetch") /\ vis'[w] = "nofood")
                => pc'[w] = "notify_none" /\ err'[w] = "none" /\ NoEffect
          /\ (Took(w, "notify_none") /\ vis[w] = "nofood" /\ pc'[w] # "apology")
                => /\ pc'[w] = "complete"
                   /\ sent' = [chat |-> CurKey(w), kind |-> "nofood"]
                   /\ rows' = rows /\ ledger' = ledger
          /\ (Took(w, "complete") /\ vis[w] = "nofood" /\ pc'[w] # "apology")
                => /\ ledger'[CurKey(w)].status = "COMPLETED"
                   /\ ReturnsNow(w)
                   /\ rows' = rows /\ sent' = Nothing
          /\ (Took(w, "check") /\ item'[w] = "COMPLETED")
                => rows' = rows /\ sent' = Nothing /\ ledger' = ledger]_vars

\* One consumer has completed a key on the NO_FOOD path, and another has
\* been handed a second message of that key and skipped it.
C6_Witness ==
    \E w, v \in Consumers :
        /\ w # v
        /\ pc[w] = "done" /\ vis[w] = "nofood" /\ chk[w] \in Proceeds
        /\ pc[v] = "done" /\ chk[v] = "skip_completed"
        /\ CurKey(v) = CurKey(w)
        /\ ledger[CurKey(w)].status = "COMPLETED"
        /\ rows[CurKey(w)] = 0
        /\ sent = Nothing

\* C7: an empty vision response is caught: nothing is raised and no row is
\* appended; the send that succeeds delivers the "couldn't analyze the image"
\* apology; the update that succeeds sets the record to COMPLETED, so that the
\* item is not retried, and the pipeline returns normally.
C7_ExtractionFailedHandled ==
    [][\A w \in Consumers :
          /\ (Took(w, "fetch") /\ vis'[w] = "empty")
                => pc'[w] = "notify_none" /\ err'[w] = "none" /\ NoEffect
          /\ (Took(w, "notify_none") /\ vis[w] = "empty" /\ pc'[w] # "apology")
                => /\ pc'[w] = "complete"
                   /\ sent' = [chat |-> CurKey(w), kind |-> "unreadable"]
                   /\ rows' = rows /\ ledger' = ledger
          /\ (Took(w, "complete") /\ vis[w] = "empty" /\ pc'[w] # "apology")
                => /\ ledger'[CurKey(w)].status = "COMPLETED"
                   /\ ReturnsNow(w)
                   /\ rows' = rows /\ sent' = Nothing]_vars

C7_Witness ==
    \E w \in Consumers :
        /\ pc[w] = "done"
        /\ vis[w] = "empty" /\ chk[w] \in Proceeds /\ err[w] = "none"
        /\ ledger[CurKey(w)].status = "COMPLETED"
        /\ rows[CurKey(w)] = 0

\* C8: a delivery whose get_item reads the record as PROCESSING proceeds: the
\* check writes nothing to the ledger and the pipeline goes on to the fetch;
\* and in such an attempt the append adds a row, the notification is sent and
\* the completion update sets COMPLETED, as in a first attempt.
C8_ProcessingProceeds ==
    [][\A w \in Consumers :
          /\ (/\ Took(w, "check")
              /\ HasKey(Cur(w))
              /\ ledger[CurKey(w)].status = "PROCESSING"
              /\ chk'[w] # "raised")
                => /\ chk'[w] = "proceed_retry"
                   /\ pc'[w] = "fetch" /\ idx'[w] = idx[w]
                   /\ err'[w] = "none"
                   /\ NoEffect
          /\ (chk[w] = "proceed_retry" /\ Took(w, "append") /\ pc'[w] # "apology")
                => rows'[CurKey(w)] = rows[CurKey(w)] + 1 /\ pc'[w] = "notify"
          /\ (chk[w] = "proceed_retry" /\ Took(w, "notify") /\ pc'[w] # "apology")
                => sent' = [chat |-> CurKey(w), kind |-> "summary"]
          /\ (chk[w] = "proceed_retry" /\ Took(w, "complete") /\ pc'[w] # "apology")
                => ledger'[CurKey(w)].status = "COMPLETED"]_vars

C8_Witness ==
    \E w \in Consumers :
        /\ pc[w] = "done"
        /\ item[w] = "PROCESSING" /\ chk[w] = "proceed_retry" /\ vis[w] = "food"
        /\ rows[CurKey(w)] >= 1
        /\ ledger[CurKey(w)].status = "COMPLETED"

\* C10: the except clause of lambda_handler always ends in the re-raise of the
\* exception it caught: for a body that cannot be parsed, for a body with no
\* chat_id (nothing is sent), and for a body with a chat_id whether the
\* apology was delivered or its send failed; it sends nothing but that one
\* apology.
C10_ErrorPathReRaises ==
    [][\A w \in Consumers :
          (pc[w] = "apology" /\ pc'[w] # "apology")
          => /\ pc'[w] = "raised"
             /\ err'[w] = err[w] /\ err[w] # "none"
             /\ IF HasChatId(Cur(w))
                  THEN \/ sent' = Nothing
                       \/ sent' = [chat |-> CurKey(w), kind |-> "apology"]
                  ELSE sent' = Nothing]_vars

\* The handler raised for a work item with a chat_id whose apology was not
\* delivered.
C10_Witness ==
    \E w \in Consumers :
        /\ pc[w] = "raised"
        /\ err[w] = "HTTPError"
        /\ HasChatId(Cur(w))
        /\ sent = Nothing

\* C9: under redelivery, a work item on the queue leads to a COMPLETED ledger
\* record of its key, whatever attempts failed before and whatever record
\* they left behind.
C9_RedeliveryCompletes ==
    \A k \in Keys :
        (queue[[kind |-> "ok", key |-> k]] > 0) ~> (ledger[k].status = "COMPLETED")

\* A delivery that found the PROCESSING record of a failed attempt has
\* completed the work item.
C9_Witness ==
    \E w \in Consumers :
        /\ pc[w] = "done"
        /\ failures > 0
        /\ \A v \in Consumers \ {w} : pc[v] = "idle"
        /\ item[w] = "PROCESSING" /\ chk[w] = "proceed_retry"
        /\ ledger[CurKey(w)].status = "COMPLETED"

\* C11 as claimed: every ledger record that exists carries an expiry
\* timestamp, that of a creation time plus 24 hours.
C11_EveryRecordExpires ==
    \A k \in Keys :
        ledger[k] # Absent
            => /\ ledger[k].ttl # NoTtl
               /\ ledger[k].ttl >= TTL_SECONDS
               /\ ledger[k].ttl <= now + TTL_SECONDS

\* C12: a storage error of the ledger check that is not the conflict of the
\* conditional insert, on get_item or on put_item, leaves the check as a
\* ClientError: the check returns neither skip nor proceed, the step changes
\* neither ledger nor sheet nor chat, and for that record the pipeline makes no
\* further call: the handler's except clause is all that runs.
C12_StorageErrorIsFatal ==
    /\ [][\A w \in Consumers :
            (/\ \/ Took(w, "check") /\ HasKey(Cur(w))
                \/ Took(w, "put")
             /\ failures' # failures)
            => /\ chk'[w] = "raised"
               /\ pc'[w] = "apology"
               /\ err'[w] = "ClientError"
               /\ steps'[w] = <<Call("check", FALSE)>>
               /\ NoEffect]_vars
    /\ [](\A w \in Consumers :
            chk[w] = "raised"
                => /\ pc[w] \in {"apology", "raised"}
                   /\ vis[w] = "none"
                   /\ steps[w] = <<Call("check", FALSE)>>)

\* The conditional insert of a new key failed with a storage error and the
\* handler raised.
C12_Witness ==
    \E w \in Consumers :
        /\ pc[w] = "raised"
        /\ chk[w] = "raised" /\ err[w] = "ClientError"
        /\ item[w] = "ABSENT"
        /\ ledger[CurKey(w)] = Absent
        /\ rows[CurKey(w)] = 0

\* C13 as claimed: with n candidates, a reply that is no integer or an integer
\* outside 1..n selects candidate 1, and a reply k in 1..n selects candidate k.
C13_FallbackToFirst ==
    [][(mpc = "pick" /\ mpc' = "add")
        => LET k == IntText(reply'.text) IN
           selected_food' =
              IF k.ok /\ k.value \in 1..Len(all_foods)
                THEN all_foods[k.value]
                ELSE all_foods[1]]_vars

\* C14 as claimed: with a merged candidate list that is not empty, every
\* outcome of the picker call ends in get_nutrition_data returning one of the
\* candidates, and none raises out of _calculate_meal_nutrition.
C14_PickerNeverFatal ==
    [][(mpc = "pick" /\ mpc' # "pick" /\ all_foods # <<>>)
        => /\ mpc' = "add"
           /\ \E i \in DOMAIN all_foods : selected_food' = all_foods[i]]_vars

\* The fdcIds the answered searches returned, in the order they came.
RECURSIVE Returned_Ids(_)
Returned_Ids(rs) ==
    IF rs = <<>> THEN <<>>
    ELSE Returned_Ids(SubSeq(rs, 1, Len(rs) - 1))
            \o (IF rs[Len(rs)].ok THEN rs[Len(rs)].foods ELSE <<>>)

\* The first index of x in the sequence q.
FirstIndex(q, x) == CHOOSE i \in DOMAIN q : q[i] = x /\ \A j \in 1..(i - 1) : q[j] # x

\* C15: the data types are queried in the order SR Legacy, Foundation, Survey
\* (FNDDS); the merged list holds every fdcId that an answered search
\* returned, once, in the order of first appearance; a search that fails adds
\* nothing and the next data type is queried all the same, and after the
\* third the picker is asked whenever any search returned a food.
C15_MergeInOrderOnce ==
    /\ [](mpc \in {"query", "pick"}
            => LET ids == Returned_Ids(responses) IN
               /\ \A i \in DOMAIN responses : responses[i].type = data_types[i]
               /\ \A i, j \in DOMAIN all_foods : i # j => all_foods[i] # all_foods[j]
               /\ {all_foods[i] : i \in DOMAIN all_foods} = {ids[i] : i \in DOMAIN ids}
               /\ \A i, j \in DOMAIN all_foods :
                     i < j => FirstIndex(ids, all_foods[i]) < FirstIndex(ids, all_foods[j])
               /\ mpc = "pick" => Len(responses) = Len(data_types) /\ all_foods # <<>>)
    /\ [][(mpc = "query" /\ <<mpc, responses>>' # <<mpc, responses>>)
            => IF Len(responses) + 1 < Len(data_types)
                 THEN mpc' = "query" /\ Len(responses') = Len(responses) + 1
                 ELSE mpc' \in {"pick", "parse", "returned"}]_vars

\* The first search failed, the second returned food 2 twice, the third foods
\* 1 and 2: the merged list is 2, 1.
C15_Witness ==
    /\ mpc = "pick"
    /\ ~responses[1].ok
    /\ responses[2].ok /\ responses[2].foods = <<2, 2>>
    /\ responses[3].ok /\ responses[3].foods = <<1, 2>>
    /\ all_foods = <<2, 1>>

\* The nutrient samples that count for the total n: the sample's name is
\* exactly that of the tracked nutrient, and for the calories its unit is the
\* kilocalorie.
Kilocalories == {"kcal", "KCAL", "Kcal"}
Counts(sample, n) ==
    \/ n = "calories" /\ sample.name = "Energy" /\ sample.unit \in Kilocalories
    \/ n = "protein" /\ sample.name = "Protein"
    \/ n = "carbs" /\ sample.name = "Carbohydrate, by difference"
    \/ n = "fat" /\ sample.name = "Total lipid (fat)"

\* The sum of f[i] over the indices i of I.
RECURSIVE SumOver(_, _)
SumOver(I, f) ==
    IF I = {} THEN 0
    ELSE LET i == CHOOSE j \in I : TRUE IN f[i] + SumOver(I \ {i}, f)

\* What the mention with weight w and food id adds to the total n, in
\* hundredths.
Share(w, id, n) ==
    LET samples == FoodNutrients(id)
        I == {i \in DOMAIN samples : Counts(samples[i], n)}
    IN  SumOver(I, [i \in I |-> samples[i].value * w])

\* The total n of the mentions handled so far.
SumOfShares(n) ==
    LET I == {i \in DOMAIN resolved : resolved[i].weight # 0 /\ resolved[i].food # 0}
    IN  SumOver(I, [i \in I |-> Share(resolved[i].weight, resolved[i].food, n)])

\* C16: after the last data type, get_nutrition_data returns None exactly when
\* the merged list is empty, and then without a picker call; the mention
\* leaves the totals as they are and the loop goes on; the totals of the other
\* mentions are the ones written to the sheet and sent to the chat.
C16_NoCandidatesSkipsMention ==
    /\ [][(mpc = "query" /\ Len(responses) + 1 = Len(data_types)
                         /\ <<mpc, responses>>' # <<mpc, responses>>)
            => IF mpc' = "pick"
                 THEN all_foods' # <<>> /\ picks' = picks
                 ELSE /\ all_foods = <<>> /\ Returned_Ids(responses) = <<>>
                      /\ mpc' \in {"parse", "returned"}
                      /\ selected_food' = 0
                      /\ picks' = picks
                      /\ totals' = totals
                      /\ resolved' = Append(resolved, [weight |-> weight, food |-> 0])]_vars
    /\ [](mpc = "notified"
            => /\ sheet_data = [items |-> food_items, totals |-> totals, written |-> TRUE]
               /\ result_message.sent /\ result_message.totals = totals
               /\ \A n \in Tracked : totals[n] = SumOfShares(n))

\* A meal of two mentions with a weight: no search found a food for the
\* first, the second was resolved, and its nutrients are the totals written
\* and sent.
C16_Witness ==
    /\ mpc = "notified"
    /\ Len(resolved) = 2
    /\ resolved[1].weight # 0 /\ resolved[1].food = 0
    /\ resolved[2].weight # 0 /\ resolved[2].food # 0
    /\ totals["calories"] > 0
    /\ sheet_data.totals = totals

\* C17: at every point of the aggregation each of the four totals is the sum,
\* over the mentions handled so far that have a weight and a resolved food, of
\* value * weight (in hundredths) over the samples that count for that total;
\* and the turn of the loop that adds a food's nutrients adds exactly that
\* mention's share to each total.
C17_TotalsAreSums ==
    /\ [](\A n \in Tracked : totals[n] = SumOfShares(n))
    /\ [][(mpc = "add" /\ mpc' # "add")
            => \A n \in Tracked :
                  totals'[n] = totals[n] + Share(weight, selected_food, n)]_vars

\* "1 a (17g)" resolved to food 1 and "b (2g)" to food 2: 165 * 17 + 35 * 2
\* calories, the kJ sample, the Atwater sample and the fibre left out.
C17_Witness ==
    /\ mpc = "returned"
    /\ resolved = <<[weight |-> 17, food |-> 1], [weight |-> 2, food |-> 2]>>
    /\ totals = [calories |-> 2875, protein |-> 531, carbs |-> 14, fat |-> 2]

\* The text t[i..j] is an opening parenthesis, one or more digits, "g" and a
\* closing parenthesis.
PatternAt(t, i, j) ==
    /\ j >= i + 3
    /\ t[i] = "(" /\ t[j - 1] = "g" /\ t[j] = ")"
    /\ \A k \in (i + 1)..(j - 2) : t[k] \in Digits

Patterns(t) == {p \in (DOMAIN t) \X (DOMAIN t) : PatternAt(t, p[1], p[2])}

\* The first '(<digits>g)' pattern of t.
FirstPattern(t) ==
    CHOOSE p \in Patterns(t) : \A q \in Patterns(t) : p[1] <= q[1]

\* The number a text of digits writes.
Decimal(ds) ==
    SumOver(DOMAIN ds, [i \in DOMAIN ds |-> DigitVal(ds[i]) * 10 ^ (Len(ds) - i)])

PatternWeight(t) ==
    IF Patterns(t) = {} THEN 0
    ELSE LET p == FirstPattern(t) IN Decimal(SubSeq(t, p[1] + 1, p[2] - 2))

\* The tokens of a text without the first one when that is a number.
NameTokens(t) ==
    LET parts == Split(t) IN
    IF parts # <<>> /\ IsDigit(parts[1]) THEN Tail(parts) ELSE parts

\* The text with the first pattern removed: what stands before it and what
\* stands after it.
WithoutPattern(t) ==
    IF Patterns(t) = {} THEN t
    ELSE LET p == FirstPattern(t) IN
         SubSeq(t, 1, p[1] - 1) \o SubSeq(t, p[2] + 1, Len(t))

\* The text before the first pattern.
BeforePattern(t) ==
    IF Patterns(t) = {} THEN t
    ELSE SubSeq(t, 1, FirstPattern(t)[1] - 1)

\* The loop handles a mention that is not empty.
ParsesMention ==
    /\ mpc = "parse"
    /\ food_items[mi] # <<>>
    /\ <<mpc, mi>>' # <<mpc, mi>>

\* A mention of weight 0 is passed over: no search, no picker call, the totals
\* as they were; any other mention goes to the resolver.
SkipsWeightless ==
    IF weight' = 0
      THEN /\ mpc' \in {"parse", "returned"}
           /\ responses' = <<>> /\ picks' = picks
           /\ totals' = totals
           /\ resolved' = Append(resolved, [weight |-> 0, food |-> 0])
      ELSE mpc' = "query" /\ resolved' = resolved

\* C18 as claimed: the weight is the number of the first '(<digits>g)'
\* pattern, 0 without one; the cleaned name is the text with the pattern
\* removed, without its first token when that is a number (names compared
\* token by token); a mention of weight 0 is passed over.
C18_NameIsTextWithoutPattern ==
    [][ParsesMention
        => /\ weight' = PatternWeight(food_items[mi])
           /\ Split(food_name') = NameTokens(WithoutPattern(food_items[mi]))
           /\ SkipsWeightless]_vars

\* C18 as amended: the cleaned name is the text before the first pattern,
\* stripped (the whole text when there is no pattern), and without its first
\* token, the rest joined by single blanks, when that token is a number.
C18_NameIsTextBeforePattern ==
    [][ParsesMention
        => LET it == food_items[mi]
               before == BeforePattern(it)
           IN  /\ weight' = PatternWeight(it)
               /\ Split(food_name') = NameTokens(before)
               /\ food_name' =
                    IF Split(before) # <<>> /\ IsDigit(Split(before)[1])
                      THEN Join(NameTokens(before))
                      ELSE IF Patterns(it) = {} THEN it ELSE Strip(before)
               /\ SkipsWeightless]_vars

\* "1 a b (170g)" is parsed to the name "a b" and the weight 170.
C18_Witness ==
    /\ food_items = << <<"1", " ", "a", " ", "b", " ", "(", "1", "7", "0", "g", ")">> >>
    /\ mpc = "query"
    /\ food_name = <<"a", " ", "b">>
    /\ weight = 170

\* The calls that may follow one another in process_meal_from_message.
Follows ==
    { <<"check", "fetch">>, <<"fetch", "vision">>, <<"vision", "resolve">>,
      <<"resolve", "append">>, <<"append", "notify">>, <<"vision", "notify">>,
      <<"notify", "complete">> }

FoodPath ==
    << Call("check", TRUE), Call("fetch", TRUE), Call("vision", TRUE),
       Call("resolve", TRUE), Call("append", TRUE), Call("notify", TRUE) >>

\* C19: for every record the calls are made in the order ledger check, image
\* fetch, vision, resolution, append, notification, completion, each one only
\* after the one before it returned normally with its effect done; a record is
\* set to COMPLETED by the completion update only, and on the food path that
\* update starts only after the row was appended and the summary delivered.
C19_StepsInOrder ==
    /\ [](\A w \in Consumers :
            LET s == steps[w] IN
            /\ s # <<>> => s[1].step = "check"
            /\ \A i \in 1..(Len(s) - 1) :
                  s[i].ok /\ <<s[i].step, s[i + 1].step>> \in Follows)
    /\ [][/\ \A w \in Consumers :
               (Took(w, "complete") /\ vis[w] = "food")
                   => steps[w] = FoodPath /\ rows[CurKey(w)] >= 1
          /\ \A k \in Keys :
               (ledger'[k].status = "COMPLETED" /\ ledger[k].status # "COMPLETED")
                   => \E w \in Consumers :
                         /\ Took(w, "complete") /\ CurKey(w) = k
                         /\ steps'[w][Len(steps'[w])] = Call("complete", TRUE)]_vars

C19_Witness ==
    \E w \in Consumers :
        /\ pc[w] = "done"
        /\ steps[w] = FoodPath \o <<Call("complete", TRUE)>>
        /\ ledger[CurKey(w)].status = "COMPLETED"
        /\ rows[CurKey(w)] = 1

\* C20: a completion update on a record that is already COMPLETED leaves the
\* ledger exactly as it is and returns normally, and any completion update
\* that is applied leaves its record COMPLETED with the expiry it had.
C20_CompletionIdempotent ==
    [][\A w \in Consumers :
          (Took(w, "complete") /\ pc'[w] # "apology")
          => LET k == CurKey(w) IN
             /\ ledger'[k] = [status |-> "COMPLETED", ttl |-> ledger[k].ttl]
             /\ \A j \in Keys \ {k} : ledger'[j] = ledger[j]
             /\ ledger[k].status = "COMPLETED" => (ledger' = ledger /\ ReturnsNow(w))]_vars

\* Two attempts on one key, the first from the absent key and the second from
\* the PROCESSING record, have both applied the completion update.
C20_Witness ==
    \E w, v \in Consumers :
        /\ w # v /\ pc[w] = "done" /\ pc[v] = "done"
        /\ CurKey(w) = CurKey(v)
        /\ chk[w] = "proceed_new" /\ chk[v] = "proceed_retry"
        /\ steps[w][Len(steps[w])] = Call("complete", TRUE)
        /\ steps[v][Len(steps[v])] = Call("complete", TRUE)
        /\ ledger[CurKey(w)] = [status |-> "COMPLETED", ttl |-> TTL_SECONDS]

\* The kinds of the texts sent so far, in order.
NoticeKinds == [i \in DOMAIN notices |-> notices[i].kind]

\* C21: a rollup that reads a sheet with no row or only its first row appends
\* no Daily_Reports row, hands the "No meals were logged" text to the notifier
\* and returns 200; a rollup that reads any other sheet appends one row, of
\* the target date and the totals computed, with the append that returns, and
\* only then sends the summary and returns 200.  No invocation appends more
\* than one row, and one whose read or append raises appends none and
\* returns 500.
C21_EmptySheetOrOneRow ==
    /\ [](/\ Len(reports) <= 1
          /\ Len(values) <= 1 => reports = <<>>
          /\ rpc = "returned" =>
                /\ statusCode \in {200, 500}
                /\ statusCode = 200 =>
                      IF Len(values) <= 1
                        THEN NoticeKinds = <<"nothing">> /\ reports = <<>>
                        ELSE /\ NoticeKinds = <<"summary">>
                             /\ reports = <<[date |-> today_str, totals |-> daily]>>
                /\ statusCode = 500 =>
                      NoticeKinds = <<"error">> /\ reports = <<>>)
    /\ [][/\ (rpc = "read" /\ rpc' # "except" /\ Len(values) <= 1)
                => rpc' = "returned" /\ statusCode' = 200
          /\ (rpc = "append" /\ rpc' # "except")
                => /\ Len(values) > 1
                   /\ reports' = <<[date |-> today_str, totals |-> daily]>>
                   /\ notices' = <<>>
          /\ (notices' # notices /\ notices'[Len(notices')].kind = "summary")
                => Len(reports) = 1 /\ reports' = reports]_vars

\* The rollup has returned from a sheet that holds its titles only.
C21_Witness ==
    /\ rpc = "returned"
    /\ Len(values) = 1
    /\ statusCode = 200
    /\ notices = <<Notice("nothing", TRUE)>>
    /\ reports = <<>>

\* The row is of date d: its first cell is d, or d and a blank and more.
OfDate(row, d) ==
    /\ row # <<>>
    /\ \/ row[1] = d
       \/ /\ Len(row[1]) > Len(d)
          /\ SubSeq(row[1], 1, Len(d)) = d
          /\ row[1][Len(d) + 1] = " "

\* The number in the cell of total n, when the row has that cell and it holds
\* a number.
HasNumber(row, n) ==
    CellOf[n] <= Len(row) /\ FloatText(row[CellOf[n]]).ok

NumberIn(row, n) == IF HasNumber(row, n) THEN FloatText(row[CellOf[n]]).value ELSE 0

\* The rows after the first one that are of the target date.
RowsOfToday == {i \in 2..Len(values) : OfDate(values[i], today_str)}

\* C22 as claimed: what calculate_daily_totals returns is, for each of the
\* four totals, the sum of its column over the rows of the target date after
\* the first row.
C22_TotalsAreColumnSums ==
    rpc = "append" =>
        \A n \in Tracked :
            daily[n] = SumOver(RowsOfToday, [i \in RowsOfToday |-> NumberIn(values[i], n)])

\* C26 as claimed: a row with a nutrient cell that is missing or holds no
\* number changes none of the four totals, and the loop goes on to the row
\* after it.
C26_UnparsedRowSkippedWhole ==
    [][(/\ rpc = "rows"
        /\ values[ri] # <<>>
        /\ \E n \in Tracked : ~HasNumber(values[ri], n))
           => daily' = daily /\ ri' = ri + 1]_vars

\* C23 as claimed: every work item on the queue carries chat_id, file_id and
\* idempotency_key, and two work items have the same key exactly when their
\* webhooks have the same chat id and the same message id.
C23_WorkItemsWellFormed ==
    /\ \A i \in DOMAIN sqs :
          {"chat_id", "file_id", "idempotency_key"} \subseteq sqs[i].body.names
    /\ \A i, j \in DOMAIN sqs :
          (sqs[i].body.idempotency_key = sqs[j].body.idempotency_key)
              <=> /\ sqs[i].hook.chat = sqs[j].hook.chat
                  /\ sqs[i].hook.message_id = sqs[j].hook.message_id

\* process_meal_from_message returns normally in this step of w: from the
\* ledger check (lines 259-260) or after a completion (lines 279, 304).
Returning(w) ==
    /\ \E p \in {"check", "put", "complete"} : Took(w, p)
    /\ ReturnsNow(w)

\* C24 as claimed: whenever process_meal_from_message returns normally for a
\* work item, the ledger record of its key is COMPLETED.
C24_ReturnMeansCompleted ==
    [][\A w \in Consumers :
          Returning(w) => ledger'[CurKey(w)].status = "COMPLETED"]_vars

\* C24 as amended: whenever process_meal_from_message returns normally, the
\* record of the key is COMPLETED, or the return is that of the conditional
\* put_item that failed its condition: then the consumer wrote nothing and
\* the record is the one another delivery wrote, which may still be
\* PROCESSING.
C24_ReturnMeansCompletedOrConflict ==
    [][\A w \in Consumers :
          Returning(w) =>
              IF chk'[w] = "skip_conflict"
                THEN /\ pc[w] = "put"
                     /\ ledger' = ledger
                     /\ ledger[CurKey(w)].status \in {"PROCESSING", "COMPLETED"}
                ELSE ledger'[CurKey(w)].status = "COMPLETED"]_vars

\* A consumer has returned from its only record on the failed condition,
\* and the record of the key is PROCESSING: the handler returns, and SQS
\* deletes the message.
C24_Witness ==
    \E w \in Consumers :
        /\ pc[w] = "done" /\ Len(batch[w]) = 1
        /\ chk[w] = "skip_conflict" /\ err[w] = "none"
        /\ ledger[CurKey(w)].status = "PROCESSING"

\* The positions of lambda_handler inside the for loop.
InLoop == {"check", "put"} \cup AfterCheck

\* C25: the records of an invocation are taken one at a time in the order of
\* the batch, the next one only when process_meal_from_message has returned
\* for the one before; a record that fails ends the invocation: the except
\* clause leaves the handler by the exception, no later record is touched,
\* and the whole batch becomes visible again; and when the batch comes back,
\* a record whose ledger record reads COMPLETED is skipped with no row, no
\* chat message and no ledger write.  Until a record expires, every record
\* before the one that an invocation is at has a ledger record.
C25_BatchInOrderFailFast ==
    /\ [](\A w \in Consumers :
            (now = 0 /\ pc[w] \in InLoop \cup {"apology", "raised"} /\ idx[w] > 0)
                => \A j \in 1..(idx[w] - 1) :
                      ledger[batch[w][j].key].status \in {"COMPLETED", "PROCESSING"})
    /\ [][\A w \in Consumers :
            /\ (pc[w] \in InLoop /\ idx'[w] # idx[w])
                  => /\ idx'[w] = idx[w] + 1 /\ idx'[w] <= Len(batch[w])
                     /\ Returning(w)
                     /\ batch'[w] = batch[w]
            /\ (pc[w] \in InLoop /\ pc'[w] = "done")
                  => idx[w] = Len(batch[w]) /\ Returning(w)
            /\ (pc[w] \in InLoop /\ pc'[w] = "apology")
                  => idx'[w] = idx[w] /\ err'[w] # "none"
            /\ (pc[w] = "apology" /\ pc'[w] # "apology")
                  => /\ pc'[w] = "raised" /\ idx'[w] = idx[w]
                     /\ ledger' = ledger /\ rows' = rows
            /\ (pc[w] = "raised" /\ pc'[w] # "raised")
                  => /\ pc'[w] = "idle"
                     /\ \A x \in Bodies : queue'[x] = queue[x] + Count(batch[w], x)
                     /\ ledger' = ledger /\ rows' = rows /\ sent' = Nothing
            /\ (/\ Took(w, "check")
                /\ HasKey(Cur(w))
                /\ ledger[CurKey(w)].status = "COMPLETED"
                /\ chk'[w] # "raised")
                  => chk'[w] = "skip_completed" /\ Returning(w) /\ NoEffect]_vars

\* A batch of two work items has come back after a failure: its first record,
\* completed before, has just been skipped with its one row left alone, and
\* the second, left PROCESSING by the attempt that failed, is up next.
C25_Witness ==
    \E w \in Consumers :
        /\ pc[w] = "check" /\ idx[w] = 2
        /\ chk[w] = "skip_completed"
        /\ failures = 1
        /\ batch[w][1].kind = "ok" /\ batch[w][2].kind = "ok"
        /\ batch[w][1].key # batch[w][2].key
        /\ ledger[batch[w][1].key].status = "COMPLETED"
        /\ rows[batch[w][1].key] = 1
        /\ ledger[batch[w][2].key].status = "PROCESSING"
        /\ rows[batch[w][2].key] = 0
        /\ \A v \in Consumers \ {w} : pc[v] = "idle"
        /\ now = 0

====
